---- MODULE Spec2Model ----
(***************************************************************************)
(* Model of elisa/model/node.py: the node classes of the symbolic model    *)
(* composition engine (Node, OperationNode, ParameterNode,                 *)
(* ParameterOperationNode, ModelNode, ModelOperationNode) and LabelSpace.  *)
(*                                                                         *)
(* Python objects live in the heap `nodes`; the index of a record in that  *)
(* sequence is the object's identity.  Python strings are sequences of     *)
(* tokens, so that concatenation, str.replace and f-string formatting are  *)
(* computed on the text and not on an abstraction of it.                   *)
(***************************************************************************)
EXTENDS Integers, Sequences, FiniteSets, TLC

VARIABLES nodes, UUID, result, space

vars == <<nodes, UUID, result, space>>

(***************************************************************************)
(* Bounds                                                                  *)
(***************************************************************************)
\* nodes constructed in a run of the composition algebra
MaxNodes == 4
\* nodes constructed in a run of the parameter operations
MaxParams == 3
\* parameter values range over 0..MaxValue
MaxValue == 2

(***************************************************************************)
(* Node                                                                    *)
(***************************************************************************)
\* attrs['id'] is the hex text of the drawn uuid: one token of the text
Hex(i) == "u" \o ToString(i)

\* uuid4(): a value that no earlier call returned
Uuid4 == {Hex(Len(nodes) + 1)}

\* Python numbers: the type and the numeric value; a str is not a number
PyInt(n) == [t |-> "int", v |-> n]
PyFloat(n) == [t |-> "float", v |-> n]
Str(n) == [t |-> "str", v |-> n]

\* Python == and != on numbers compare the numeric values, int or float
PyEq(a, b) == a.v = b.v

\* fillers of the attributes a node class does not carry
NoDist == [kind |-> "none", value |-> PyInt(0), lo |-> 0, hi |-> 0]
NoDefault == PyInt(0)

\* deterministic=None, and the attribute of the classes that have none
NoDeterministic ==
    [given |-> FALSE, is_tuple |-> FALSE, size |-> 0, first_is_tuple |-> FALSE,
     callable |-> FALSE, templates |-> <<>>]

\* Node.__init__, "check if uuid4 collides": node_id in _UUID
UuidCollides(id) == \E j \in 1..Len(UUID) : UUID[j] = id

\* the record Node.__init__ leaves behind: _attrs and _predecessor
NodeInit(type, is_operation, name, fmt, id, predecessor, default, dist, deterministic, mtype, is_ncon) ==
    [type |-> type, is_operation |-> is_operation, name |-> name, fmt |-> fmt,
     id |-> id, predecessor |-> predecessor, default |-> default,
     distribution |-> dist, deterministic |-> deterministic,
     mtype |-> mtype, is_ncon |-> is_ncon]

\* the outcome of the last call: the node it constructed or acted on, its
\* arguments, and what it returned or raised
Outcome(call, status, node, lh, rh, op, args, value) ==
    [call |-> call, status |-> status, node |-> node, lh |-> lh, rh |-> rh,
     op |-> op, args |-> args, value |-> value]

NoResult == Outcome("none", "ok", 0, 0, 0, "", <<>>, <<>>)

NodeIds == 1..Len(nodes)

\* node.attrs[key] = value, on the dict that Node.attrs hands out
AttrsSet(n, key, value) ==
    /\ nodes' = IF key = "name" THEN [nodes EXCEPT ![n].name = value]
                                ELSE [nodes EXCEPT ![n].fmt = value]
    /\ result' = Outcome("attrs", "ok", n, 0, 0, "", <<>>, <<>>)
    /\ UNCHANGED <<UUID, space>>

(***************************************************************************)
(* OperationNode                                                           *)
(***************************************************************************)
Ops == {"+", "*"}

\* the check of the operator alone
CheckTypeOperator(lh, rh, op) ==
    IF op \notin {"+", "*"} THEN "TypeError" ELSE "ok"

\* OperationNode._check_type: the operator is + or * and the operand types agree
CheckType(lh, rh, op) ==
    IF op \notin {"+", "*"} THEN "TypeError"
    ELSE IF nodes[lh].type # nodes[rh].type THEN "TypeError"
    ELSE "ok"

\* fmt of an operation node: r'\times' for *, the operator itself for +
OpFmt(op) == IF op = "*" THEN <<"\\times">> ELSE <<op>>

(***************************************************************************)
(* ParameterNode                                                           *)
(***************************************************************************)
\* a fixed value (float or int) in place of a distribution
Fixed(c) == [kind |-> "number", value |-> c, lo |-> 0, hi |-> 0]

\* a numpyro Distribution, known by its support lo..hi
Distribution(lo, hi) == [kind |-> "Distribution", value |-> PyInt(0), lo |-> lo, hi |-> hi]

\* an argument that is neither a Distribution nor a number
NotADist == [kind |-> "other", value |-> PyInt(0), lo |-> 0, hi |-> 0]

\* dist._validate_sample(default): the support mask at the value
ValidateSample(dist, default) == dist.lo <= default.v /\ default.v <= dist.hi

\* ParameterNode._validate_input, the check of the distribution
ValidateInput(dist) ==
    IF dist.kind \notin {"Distribution", "number"} THEN "ValueError" ELSE "ok"

\* ParameterNode._validate_default
ValidateDefault(dist, default) ==
    IF dist.kind = "Distribution"
    THEN IF ~ValidateSample(dist, default) THEN "ValueError" ELSE "ok"
    ELSE IF ~PyEq(dist.value, default) THEN "ValueError" ELSE "ok"

\* a deterministic argument (templates, func): a tuple of two elements, the
\* first a tuple of label templates and the second the combinator; a template
\* is known by whether it is a str and by its text, {name} being one token
Deterministic(templates, callable) ==
    [given |-> TRUE, is_tuple |-> TRUE, size |-> 2, first_is_tuple |-> TRUE,
     callable |-> callable, templates |-> templates]

\* an argument that is neither a list nor a tuple
NotATuple ==
    [given |-> TRUE, is_tuple |-> FALSE, size |-> 0, first_is_tuple |-> FALSE,
     callable |-> FALSE, templates |-> <<>>]

\* ParameterNode._validate_input, the check of the deterministic argument
ValidateDeterministic(determ) ==
    IF ~determ.given THEN "ok"
    ELSE IF ~determ.is_tuple THEN "ValueError"
    ELSE IF determ.size # 2 \/ ~determ.first_is_tuple \/ ~determ.callable
    THEN "ValueError"
    ELSE IF \E j \in 1..Len(determ.templates) : ~determ.templates[j].is_str
    THEN "ValueError"
    ELSE "ok"

\* ParameterNode.__init__ with the deterministic argument given
ParameterNodeInitWith(name, fmt, default, dist, deterministic, id) ==
    IF \/ ValidateInput(dist) # "ok"
       \/ ValidateDeterministic(deterministic) # "ok"
       \/ ValidateDefault(dist, default) # "ok"
    THEN /\ result' = Outcome("ParameterNode", "ValueError", 0, 0, 0, "",
                              <<default, dist>>, <<>>)
         /\ UNCHANGED <<nodes, UUID, space>>
    ELSE IF UuidCollides(id)
    THEN /\ result' = Outcome("ParameterNode", "RuntimeError", 0, 0, 0, "",
                              <<default, dist>>, <<>>)
         /\ UNCHANGED <<nodes, UUID, space>>
    ELSE /\ nodes' = Append(nodes, NodeInit("parameter", FALSE, name, fmt, id, <<>>,
                                            default, dist, deterministic, "", FALSE))
         /\ result' = Outcome("ParameterNode", "ok", Len(nodes) + 1, 0, 0, "",
                              <<default, dist>>, <<>>)
         /\ UNCHANGED <<UUID, space>>

\* ParameterNode.__init__ with deterministic left at its default, None
ParameterNodeInit(name, fmt, default, dist, id) ==
    ParameterNodeInitWith(name, fmt, default, dist, NoDeterministic, id)

\* float(value): the same number as a float; a str that is not a number raises
Float(value) == IF value.t = "str" THEN "ValueError" ELSE "ok"
FloatOf(value) == PyFloat(value.v)

\* the setter storing the value before it validates it
DefaultSetterAssignFirst(n, value) ==
    IF nodes[n].is_operation
    THEN /\ result' = Outcome("default.setter", "AttributeError", n, 0, 0, "", <<value>>, <<>>)
         /\ UNCHANGED <<nodes, UUID, space>>
    ELSE IF Float(value) # "ok"
    THEN /\ result' = Outcome("default.setter", "ValueError", n, 0, 0, "", <<value>>, <<>>)
         /\ UNCHANGED <<nodes, UUID, space>>
    ELSE /\ nodes' = [nodes EXCEPT ![n].default = FloatOf(value)]
         /\ result' = Outcome("default.setter",
                              ValidateDefault(nodes[n].distribution, FloatOf(value)),
                              n, 0, 0, "", <<value>>, <<>>)
         /\ UNCHANGED <<UUID, space>>

\* ParameterNode.default, the setter; ParameterOperationNode.default has none
DefaultSetter(n, value) ==
    IF nodes[n].is_operation
    THEN /\ result' = Outcome("default.setter", "AttributeError", n, 0, 0, "", <<value>>, <<>>)
         /\ UNCHANGED <<nodes, UUID, space>>
    ELSE IF Float(value) # "ok"
    THEN /\ result' = Outcome("default.setter", "ValueError", n, 0, 0, "", <<value>>, <<>>)
         /\ UNCHANGED <<nodes, UUID, space>>
    ELSE IF ValidateDefault(nodes[n].distribution, FloatOf(value)) # "ok"
    THEN /\ result' = Outcome("default.setter", "ValueError", n, 0, 0, "", <<value>>, <<>>)
         /\ UNCHANGED <<nodes, UUID, space>>
    ELSE /\ nodes' = [nodes EXCEPT ![n].default = FloatOf(value)]
         /\ result' = Outcome("default.setter", "ok", n, 0, 0, "", <<value>>, <<>>)
         /\ UNCHANGED <<UUID, space>>

(***************************************************************************)
(* ParameterOperationNode                                                  *)
(***************************************************************************)
\* ParameterOperationNode.__init__ (the __add__/__mul__ of both parameter
\* classes call it with op = '+' / '*')
ParameterOperationNodeInit(lh, rh, op, id) ==
    IF CheckType(lh, rh, op) # "ok"
    THEN /\ result' = Outcome("ParameterOperationNode", "TypeError", 0, lh, rh, op, <<>>, <<>>)
         /\ UNCHANGED <<nodes, UUID, space>>
    ELSE IF UuidCollides(id)
    THEN /\ result' = Outcome("ParameterOperationNode", "RuntimeError", 0, lh, rh, op, <<>>, <<>>)
         /\ UNCHANGED <<nodes, UUID, space>>
    ELSE /\ nodes' = Append(nodes, NodeInit("parameter", TRUE, <<op>>, OpFmt(op), id,
                                            <<lh, rh>>, NoDefault, NoDist, NoDeterministic, "", FALSE))
         /\ result' = Outcome("ParameterOperationNode", "ok", Len(nodes) + 1,
                              lh, rh, op, <<>>, <<>>)
         /\ UNCHANGED <<UUID, space>>

\* Python + and * on numbers: a float operand makes the result a float
PyAdd(a, b) == [t |-> IF a.t = "float" \/ b.t = "float" THEN "float" ELSE "int",
                v |-> a.v + b.v]
PyMul(a, b) == [t |-> IF a.t = "float" \/ b.t = "float" THEN "float" ELSE "int",
                v |-> a.v * b.v]

\* the combination that adds whatever the operator is
OperationDefaultAdd(name, lh, rh) == PyAdd(lh, rh)

\* ParameterOperationNode.default, the combination of the operands' defaults
OperationDefault(name, lh, rh) ==
    IF name = <<"+">> THEN PyAdd(lh, rh) ELSE PyMul(lh, rh)

\* ParameterNode.default and ParameterOperationNode.default, read in heap h
RECURSIVE DefaultIn(_, _)
DefaultIn(h, n) ==
    IF ~h[n].is_operation
    THEN h[n].default
    ELSE OperationDefault(h[n].name, DefaultIn(h, h[n].predecessor[1]),
                          DefaultIn(h, h[n].predecessor[2]))

Default(n) == DefaultIn(nodes, n)

\* a read of the default property of a parameter node
DefaultGetter(n) ==
    /\ nodes[n].type = "parameter"
    /\ result' = Outcome("default", "ok", n, 0, 0, "", <<>>, <<Default(n)>>)
    /\ UNCHANGED <<nodes, UUID, space>>

(***************************************************************************)
(* ModelNode                                                               *)
(***************************************************************************)
MTypes == {"add", "mul", "con"}

\* the kinds of leaf: is_ncon marks the convolutions that act on the norm
Kinds == {[mtype |-> "add", is_ncon |-> FALSE], [mtype |-> "mul", is_ncon |-> FALSE],
          [mtype |-> "con", is_ncon |-> FALSE], [mtype |-> "con", is_ncon |-> TRUE]}

\* ModelNode.__init__
ModelNodeInit(name, fmt, mtype, params, is_ncon, id) ==
    IF mtype \notin {"add", "mul", "con"}
    THEN /\ result' = Outcome("ModelNode", "TypeError", 0, 0, 0, "", <<>>, <<>>)
         /\ UNCHANGED <<nodes, UUID, space>>
    ELSE IF \E k \in 1..Len(params) : nodes[params[k]].type # "parameter"
    THEN /\ result' = Outcome("ModelNode", "ValueError", 0, 0, 0, "", <<>>, <<>>)
         /\ UNCHANGED <<nodes, UUID, space>>
    ELSE IF UuidCollides(id)
    THEN /\ result' = Outcome("ModelNode", "RuntimeError", 0, 0, 0, "", <<>>, <<>>)
         /\ UNCHANGED <<nodes, UUID, space>>
    ELSE /\ nodes' = Append(nodes, NodeInit("model", FALSE, name, fmt, id, params,
                                            NoDefault, NoDist, NoDeterministic, mtype, is_ncon))
         /\ result' = Outcome("ModelNode", "ok", Len(nodes) + 1, 0, 0, "", <<>>, <<>>)
         /\ UNCHANGED <<UUID, space>>

(***************************************************************************)
(* ModelOperationNode                                                      *)
(***************************************************************************)
\* the legality check without the rejection of additive * additive
OpLegalAddTimesAdd(op, mtype1, is_ncon1, mtype2, is_ncon2) ==
    IF op = "+"
    THEN IF mtype1 # "add" THEN "TypeError"
         ELSE IF mtype2 # "add" THEN "TypeError"
         ELSE "ok"
    ELSE IF mtype1 = "add" /\ mtype2 = "con" THEN "TypeError"
         ELSE IF is_ncon1 /\ is_ncon2 THEN "TypeError"
         ELSE "ok"

\* the legality check with the norm test left inside the additive branch
OpLegalNconNested(op, mtype1, is_ncon1, mtype2, is_ncon2) ==
    IF op = "+"
    THEN IF mtype1 # "add" THEN "TypeError"
         ELSE IF mtype2 # "add" THEN "TypeError"
         ELSE "ok"
    ELSE IF mtype1 = "add" /\ mtype2 = "add" THEN "TypeError"
         ELSE IF mtype1 = "add" /\ mtype2 = "con" THEN "TypeError"
         ELSE IF mtype1 = "add" /\ is_ncon1 /\ is_ncon2 THEN "TypeError"
         ELSE "ok"

\* the legality check with the additive * convolution order test reversed
OpLegalOrder(op, mtype1, is_ncon1, mtype2, is_ncon2) ==
    IF op = "+"
    THEN IF mtype1 # "add" THEN "TypeError"
         ELSE IF mtype2 # "add" THEN "TypeError"
         ELSE "ok"
    ELSE IF mtype1 = "add" /\ mtype2 = "add" THEN "TypeError"
         ELSE IF mtype1 = "con" /\ mtype2 = "add" THEN "TypeError"
         ELSE IF is_ncon1 /\ is_ncon2 THEN "TypeError"
         ELSE "ok"

\* the legality check that refuses a norm-convolution as right operand of *
OpLegalNconRight(op, mtype1, is_ncon1, mtype2, is_ncon2) ==
    IF op = "+"
    THEN IF mtype1 # "add" THEN "TypeError"
         ELSE IF mtype2 # "add" THEN "TypeError"
         ELSE "ok"
    ELSE IF mtype1 = "add" /\ mtype2 = "add" THEN "TypeError"
         ELSE IF mtype1 = "add" /\ mtype2 = "con" THEN "TypeError"
         ELSE IF is_ncon2 THEN "TypeError"
         ELSE "ok"

\* ModelOperationNode.__init__, "check if operand is legal for the op"
OpLegal(op, mtype1, is_ncon1, mtype2, is_ncon2) ==
    IF op = "+"
    THEN IF mtype1 # "add" THEN "TypeError"
         ELSE IF mtype2 # "add" THEN "TypeError"
         ELSE "ok"
    ELSE IF mtype1 = "add" /\ mtype2 = "add" THEN "TypeError"
         ELSE IF mtype1 = "add" /\ mtype2 = "con" THEN "TypeError"
         ELSE IF is_ncon1 /\ is_ncon2 THEN "TypeError"
         ELSE "ok"

\* the derivation that keeps the norm flag on an additive composite
DeriveKindKeepsFlag(mtype1, is_ncon1, mtype2, is_ncon2) ==
    IF mtype1 = "add" \/ mtype2 = "add"
    THEN [mtype |-> "add", is_ncon |-> (is_ncon1 \/ is_ncon2)]
    ELSE IF mtype1 = "con" \/ mtype2 = "con"
         THEN [mtype |-> "con", is_ncon |-> (is_ncon1 \/ is_ncon2)]
         ELSE [mtype |-> "mul", is_ncon |-> FALSE]

\* ModelOperationNode.__init__, "determine the mtype"
DeriveKind(mtype1, is_ncon1, mtype2, is_ncon2) ==
    IF mtype1 = "add" \/ mtype2 = "add"
    THEN [mtype |-> "add", is_ncon |-> FALSE]
    ELSE IF mtype1 = "con" \/ mtype2 = "con"
         THEN [mtype |-> "con", is_ncon |-> (is_ncon1 \/ is_ncon2)]
         ELSE [mtype |-> "mul", is_ncon |-> FALSE]

\* ModelOperationNode.__init__, "for a convolution model, fmt is *"
ModelOpFmt(lh, op) ==
    IF ~nodes[lh].is_operation /\ nodes[lh].mtype = "con" THEN <<"*">> ELSE OpFmt(op)

\* ModelOperationNode.__init__ (ModelNode.__add__/__mul__ and
\* ModelOperationNode.__add__/__mul__ call it with op = '+' / '*')
ModelOperationNodeInit(lh, rh, op, id) ==
    IF CheckType(lh, rh, op) # "ok"
    THEN /\ result' = Outcome("ModelOperationNode", "TypeError", 0, lh, rh, op, <<>>, <<>>)
         /\ UNCHANGED <<nodes, UUID, space>>
    ELSE LET l == nodes[lh]
             r == nodes[rh]
         IN  IF OpLegal(op, l.mtype, l.is_ncon, r.mtype, r.is_ncon) # "ok"
             THEN /\ result' = Outcome("ModelOperationNode", "TypeError", 0, lh, rh, op, <<>>, <<>>)
                  /\ UNCHANGED <<nodes, UUID, space>>
             ELSE IF UuidCollides(id)
             THEN /\ result' = Outcome("ModelOperationNode", "RuntimeError", 0, lh, rh, op, <<>>, <<>>)
                  /\ UNCHANGED <<nodes, UUID, space>>
             ELSE LET k == DeriveKind(l.mtype, l.is_ncon, r.mtype, r.is_ncon)
                  IN  /\ nodes' = Append(nodes,
                                     NodeInit("model", TRUE, <<op>>, ModelOpFmt(lh, op), id,
                                              <<lh, rh>>, NoDefault, NoDist, NoDeterministic, k.mtype, k.is_ncon))
                      /\ result' = Outcome("ModelOperationNode", "ok", Len(nodes) + 1,
                                           lh, rh, op, <<>>, <<>>)
                      /\ UNCHANGED <<UUID, space>>

\* the concatenation that leaves out the names the left operand already has
CompsJoinUnique(lh_comps, rh_comps) ==
    lh_comps \o SelectSeq(rh_comps, LAMBDA c : ~\E j \in 1..Len(lh_comps) : lh_comps[j] = c)

\* ModelOperationNode.comps: lh.comps + rh.comps
CompsJoin(lh_comps, rh_comps) == lh_comps \o rh_comps

(***************************************************************************)
(* Node.name and Node.fmt                                                  *)
(***************************************************************************)
\* attrs[label] of node n in heap h, label being 'name' or 'fmt'
Attr(h, n, label) == IF label = "name" THEN h[n].name ELSE h[n].fmt

\* Node._label_with_id and OperationNode._label_with_id: a leaf's label with
\* its id appended, an operation's label composed of its operands' labels
RECURSIVE LabelWithId(_, _, _)
LabelWithId(h, n, label) ==
    IF ~h[n].is_operation
    THEN Attr(h, n, label) \o <<"_">> \o <<h[n].id>>
    ELSE LET lh == h[n].predecessor[1]
             rh == h[n].predecessor[2]
             op_name == h[n].name
             op == Attr(h, n, label)
             lh_raw == LabelWithId(h, lh, label)
             rh_raw == LabelWithId(h, rh, label)
             lh_label == IF op_name = <<"*">> /\ h[lh].name = <<"+">>
                         THEN <<"(">> \o lh_raw \o <<")">> ELSE lh_raw
             rh_label == IF op_name = <<"*">> /\ h[rh].name = <<"+">>
                         THEN <<"(">> \o rh_raw \o <<")">> ELSE rh_raw
         IN  lh_label \o <<" ">> \o op \o <<" ">> \o rh_label

\* ModelNode.comps and ModelOperationNode.comps
RECURSIVE Comps(_, _)
Comps(h, n) ==
    IF ~h[n].is_operation
    THEN <<LabelWithId(h, n, "name")>>
    ELSE CompsJoin(Comps(h, h[n].predecessor[1]), Comps(h, h[n].predecessor[2]))

\* a read of the comps property of a model node
CompsGetter(n) ==
    /\ nodes[n].type = "model"
    /\ result' = Outcome("comps", "ok", n, 0, 0, "", <<>>, Comps(nodes, n))
    /\ UNCHANGED <<nodes, UUID, space>>

(***************************************************************************)
(* LabelSpace                                                              *)
(***************************************************************************)
\* LabelSpace._get_sub_nodes_label: the walk over node_stack, which records
\* (node, label) of every leaf met and pushes the predecessors of an operation
RECURSIVE SubNodesWalk(_, _, _, _)
SubNodesWalk(h, label_type, node_stack, labels) ==
    IF node_stack = <<>> THEN labels
    ELSE LET i == Head(node_stack)
         IN  IF ~h[i].is_operation
             THEN SubNodesWalk(h, label_type, Tail(node_stack),
                               Append(labels, <<i, Attr(h, i, label_type)>>))
             ELSE SubNodesWalk(h, label_type, h[i].predecessor \o Tail(node_stack),
                               labels)

GetSubNodesLabel(h, node, label_type) == SubNodesWalk(h, label_type, <<node>>, <<>>)

\* a dict as the sequence of its (key, value) items in insertion order
DictHas(d, k) == \E j \in 1..Len(d) : d[j][1] = k
DictGet(d, k) == d[CHOOSE j \in 1..Len(d) : d[j][1] = k][2]
DictSet(d, k, v) ==
    IF DictHas(d, k)
    THEN [j \in 1..Len(d) |-> IF d[j][1] = k THEN <<k, v>> ELSE d[j]]
    ELSE Append(d, <<k, v>>)

\* the test id_ not in same_label_nodes always passing
SeqHasNever(q, x) == FALSE

\* id_ in same_label_nodes
SeqHas(q, x) == \E j \in 1..Len(q) : q[j] = x

\* the suffix with the underscore for the name as well
SuffixStrUnderscore(label_type, num) == <<"_", ToString(num)>>

\* f'{num}' for the name and f'_{num}' for the fmt
SuffixStr(label_type, num) ==
    IF label_type = "name" THEN <<ToString(num)>> ELSE <<"_", ToString(num)>>

\* LabelSpace._get_suffix_mapping: the walk over node_stack, which keeps the
\* ids met under each label (label_space) and the text replacing each
\* label_id (id_to_str)
RECURSIVE SuffixWalk(_, _, _, _, _)
SuffixWalk(h, label_type, node_stack, label_space, id_to_str) ==
    IF node_stack = <<>> THEN id_to_str
    ELSE LET i == Head(node_stack)
             label == Attr(h, i, label_type)
             id_ == h[i].id
             key == label \o <<"_">> \o <<id_>>
         IN  IF h[i].is_operation
             THEN SuffixWalk(h, label_type, h[i].predecessor \o Tail(node_stack),
                             label_space, id_to_str)
             ELSE IF ~DictHas(label_space, label)
             THEN SuffixWalk(h, label_type, Tail(node_stack),
                             DictSet(label_space, label, <<id_>>),
                             DictSet(id_to_str, key, label))
             ELSE LET same_label_nodes == DictGet(label_space, label)
                  IN  IF ~SeqHas(same_label_nodes, id_)
                      THEN LET appended == Append(same_label_nodes, id_)
                               num == Len(appended)
                           IN  SuffixWalk(h, label_type, Tail(node_stack),
                                          DictSet(label_space, label, appended),
                                          DictSet(id_to_str, key,
                                                  label \o SuffixStr(label_type, num)))
                      ELSE SuffixWalk(h, label_type, Tail(node_stack),
                                      label_space, id_to_str)

GetSuffixMapping(h, node, label_type) == SuffixWalk(h, label_type, <<node>>, <<>>, <<>>)

\* the object LabelSpace.__init__ leaves behind
LabelSpaceOf(h, node) ==
    [made |-> TRUE, node |-> node,
     label_space |-> [name |-> GetSubNodesLabel(h, node, "name"),
                      fmt |-> GetSubNodesLabel(h, node, "fmt")],
     label_map |-> [name |-> GetSuffixMapping(h, node, "name"),
                    fmt |-> GetSuffixMapping(h, node, "fmt")]]

\* LabelSpace.__init__
LabelSpaceInit(node) ==
    /\ space' = LabelSpaceOf(nodes, node)
    /\ result' = Outcome("LabelSpace", "ok", node, 0, 0, "", <<>>, <<>>)
    /\ UNCHANGED <<nodes, UUID>>

\* _check_if_label_changed with the flag never raised: the snapshot is kept
CheckIfLabelChangedNever(h, sp, label) == sp

\* LabelSpace._check_if_label_changed: the object after the check
CheckIfLabelChanged(h, sp, label) ==
    LET flag == \E j \in 1..Len(sp.label_space[label]) :
                    Attr(h, sp.label_space[label][j][1], label) # sp.label_space[label][j][2]
    IN  IF flag
        THEN [sp EXCEPT !.label_space[label] = GetSubNodesLabel(h, sp.node, label),
                        !.label_map[label] = GetSuffixMapping(h, sp.node, label)]
        ELSE sp

\* str.replace(k, v): every occurrence of k, left to right, without overlap
RECURSIVE Replace(_, _, _)
Replace(str, k, v) ==
    IF Len(str) < Len(k) THEN str
    ELSE IF SubSeq(str, 1, Len(k)) = k
         THEN v \o Replace(SubSeq(str, Len(k) + 1, Len(str)), k, v)
         ELSE <<Head(str)>> \o Replace(Tail(str), k, v)

\* the loop of LabelSpace._label over the items of the suffix mapping
RECURSIVE ReplaceAll(_, _, _)
ReplaceAll(label, items, j) ==
    IF j > Len(items) THEN label
    ELSE ReplaceAll(Replace(label, items[j][1], items[j][2]), items, j + 1)

\* the text LabelSpace._label returns once the check has been made
LabelText(h, sp, label_type) ==
    ReplaceAll(LabelWithId(h, sp.node, label_type), sp.label_map[label_type], 1)

\* LabelSpace._label, behind the properties LabelSpace.name and LabelSpace.fmt
LabelSpaceLabel(label_type) ==
    LET checked == CheckIfLabelChanged(nodes, space, label_type)
    IN  /\ space' = checked
        /\ result' = Outcome("LabelSpace." \o label_type, "ok", space.node, 0, 0, "",
                             <<>>, LabelText(nodes, checked, label_type))
        /\ UNCHANGED <<nodes, UUID>>

\* LabelSpace.mapping: the check of the fmt labels, then the two suffix maps
LabelSpaceMapping ==
    LET checked == CheckIfLabelChanged(nodes, space, "fmt")
    IN  /\ space' = checked
        /\ result' = Outcome("LabelSpace.mapping", "ok", space.node, 0, 0, "", <<>>,
                             <<checked.label_map.name, checked.label_map.fmt>>)
        /\ UNCHANGED <<nodes, UUID>>

(***************************************************************************)
(* site                                                                    *)
(*                                                                         *)
(* A site map is the pair of the dicts 'sample' and 'deterministic'; a     *)
(* deterministic item is (key, (names of the dependencies, combinator)).   *)
(* The combinator of a composite is known by its operator, the one of a    *)
(* leaf is the function given at construction.                             *)
(***************************************************************************)
\* {**d1, **d2}: the items of d1, then those of d2, a key of both keeping its
\* place in d1 and taking its value from d2
RECURSIVE DictMerge(_, _, _)
DictMerge(d1, d2, j) ==
    IF j > Len(d2) THEN d1
    ELSE DictMerge(DictSet(d1, d2[j][1], d2[j][2]), d2, j + 1)

SiteMap(status, sample, deterministic) ==
    [status |-> status, sample |-> sample, deterministic |-> deterministic]

\* the combinator given with the deterministic argument of a leaf
LeafFunc == "func"

\* deterministic_fmt.format(name=name)
Format(template, name) == Replace(template, <<"{name}">>, name)

\* ParameterNode.site: (deterministic_fmt,), func = ... unpacks one template
ParameterSite(name, dist, determ) ==
    IF ~determ.given THEN SiteMap("ok", <<<<name, dist>>>>, <<>>)
    ELSE IF Len(determ.templates) # 1 THEN SiteMap("ValueError", <<>>, <<>>)
    ELSE SiteMap("ok", <<<<name, dist>>>>,
                 <<<<Format(determ.templates[1].text, name), <<<<name>>, LeafFunc>>>>>>)

\* ParameterOperationNode.site with the sum as combinator whatever the operator
OperationSiteAdd(name, op, lh_name, rh_name, lh, rh) ==
    IF lh.status # "ok" THEN SiteMap(lh.status, <<>>, <<>>)
    ELSE IF rh.status # "ok" THEN SiteMap(rh.status, <<>>, <<>>)
    ELSE SiteMap("ok", DictMerge(lh.sample, rh.sample, 1),
                 DictSet(DictMerge(lh.deterministic, rh.deterministic, 1), name,
                         <<<<lh_name, rh_name>>, "+">>))

\* ParameterOperationNode.site, of the node named name with the operator op
OperationSite(name, op, lh_name, rh_name, lh, rh) ==
    IF lh.status # "ok" THEN SiteMap(lh.status, <<>>, <<>>)
    ELSE IF rh.status # "ok" THEN SiteMap(rh.status, <<>>, <<>>)
    ELSE SiteMap("ok", DictMerge(lh.sample, rh.sample, 1),
                 DictSet(DictMerge(lh.deterministic, rh.deterministic, 1), name,
                         <<<<lh_name, rh_name>>, IF op = <<"+">> THEN "+" ELSE "*">>))

\* ModelNode.site: the sites of the parameters are collected, then reduced;
\* reduce() of an empty list with no initial value raises TypeError
ReduceSites(sites) ==
    LET RECURSIVE Fold(_, _)
        Fold(acc, j) ==
            IF j > Len(sites) THEN acc
            ELSE Fold(SiteMap("ok", DictMerge(acc.sample, sites[j].sample, 1),
                              DictMerge(acc.deterministic, sites[j].deterministic, 1)),
                      j + 1)
    IN  IF \E j \in 1..Len(sites) : sites[j].status # "ok"
        THEN SiteMap(sites[CHOOSE j \in 1..Len(sites) :
                              /\ sites[j].status # "ok"
                              /\ \A k \in 1..(j - 1) : sites[k].status = "ok"].status,
                     <<>>, <<>>)
        ELSE IF Len(sites) = 0 THEN SiteMap("TypeError", <<>>, <<>>)
        ELSE Fold(sites[1], 2)

\* ModelOperationNode.site
ModelOperationSite(lh, rh) ==
    IF lh.status # "ok" THEN SiteMap(lh.status, <<>>, <<>>)
    ELSE IF rh.status # "ok" THEN SiteMap(rh.status, <<>>, <<>>)
    ELSE SiteMap("ok", DictMerge(lh.sample, rh.sample, 1),
                 DictMerge(lh.deterministic, rh.deterministic, 1))

\* the site property of node n in heap h
RECURSIVE Site(_, _)
Site(h, n) ==
    IF h[n].type = "parameter"
    THEN IF ~h[n].is_operation
         THEN ParameterSite(LabelWithId(h, n, "name"), h[n].distribution,
                            h[n].deterministic)
         ELSE OperationSite(LabelWithId(h, n, "name"), h[n].name,
                            LabelWithId(h, h[n].predecessor[1], "name"),
                            LabelWithId(h, h[n].predecessor[2], "name"),
                            Site(h, h[n].predecessor[1]), Site(h, h[n].predecessor[2]))
    ELSE IF ~h[n].is_operation
         THEN ReduceSites([j \in 1..Len(h[n].predecessor) |-> Site(h, h[n].predecessor[j])])
         ELSE ModelOperationSite(Site(h, h[n].predecessor[1]),
                                 Site(h, h[n].predecessor[2]))

\* a read of the site property of node n
SiteGetter(n) ==
    LET site == Site(nodes, n)
    IN  /\ result' = Outcome("site", site.status, n, 0, 0, "", <<>>,
                             <<site.sample, site.deterministic>>)
        /\ UNCHANGED <<nodes, UUID, space>>

(***************************************************************************)
(* generate_func                                                           *)
(*                                                                         *)
(* An evaluator is known by what a call of it returns.  The value of a     *)
(* call is the text of the calls of the leaves' functions it comes down    *)
(* to: func(e, **p[model_name]) is the text  model_name ( e , ** p [       *)
(* model_name ] ), and the arguments p, e, f and ff of the outermost call  *)
(* are the tokens given to it.  A function passed as a value is the text   *)
(* of its definition.                                                      *)
(***************************************************************************)
\* the text of the call fn(args[1], args[2], ...)
RECURSIVE ArgList(_, _)
ArgList(args, j) ==
    IF j > Len(args) THEN <<>>
    ELSE IF j = Len(args) THEN args[j]
    ELSE args[j] \o <<",">> \o ArgList(args, j + 1)

CallText(fn, args) == fn \o <<"(">> \o ArgList(args, 1) \o <<")">>

\* **p[model_name]
KwText(p, model_name) == <<"**">> \o p \o <<"[">> \o model_name \o <<"]">>

\* a + b and a * b on what two evaluators returned
BinText(op, a, b) == <<"(">> \o a \o <<op>> \o b \o <<")">>

\* the function object generate_func of node n returned, passed as a value
FuncText(n) == <<"generate_func", ToString(n)>>

\* a function of two positional arguments defined inside a wrapper
X1 == <<"x1">>
X2 == <<"x2">>
LambdaText(body) == <<"lambda", "x1", ",", "x2", ":">> \o body

\* a call of a function that was received as a value
ValueCallText(ff, args) == CallText(<<"(">> \o ff \o <<")">>, args)

\* a call that Python refuses: a missing or surplus positional argument
ArityError == <<"TypeError">>

\* mapping[self.name] when the mapping has no such key
MappingError == <<"KeyError">>

\* a default argument left at None
None == <<"None">>

\* the wrapper ModelNode.generate_func returns for a leaf
LeafShape(mtype, is_ncon) ==
    IF mtype = "add" THEN "wrapper_add"
    ELSE IF mtype = "mul" THEN "wrapper_mul"
    ELSE IF is_ncon THEN "wrapper_ncon"
    ELSE "wrapper_con"

\* the dispatch with the test of the left operand's norm flag dropped from the
\* convolution branch
ShapeNoNcon(op, type1, is_ncon1, type2, is_ncon2) ==
    IF op = "+" THEN "wrapper_add_add"
    ELSE IF type1 # "con"
    THEN IF type2 # "con" THEN "wrapper_op"
         ELSE IF is_ncon2 THEN "wrapper_mul_ncon"
         ELSE "wrapper_mul_con"
    ELSE IF type2 = "add" THEN "wrapper_con_add"
         ELSE IF type2 = "mul" THEN "wrapper_con_mul"
         ELSE IF is_ncon2 THEN "wrapper_con_ncon"
         ELSE "wrapper_con_con"

\* the wrapper ModelOperationNode.generate_func returns: the dispatch on the
\* operator, the operands' mtype and their norm flags
Shape(op, type1, is_ncon1, type2, is_ncon2) ==
    IF op = "+" THEN "wrapper_add_add"
    ELSE IF type1 # "con"
    THEN IF type2 # "con" THEN "wrapper_op"
         ELSE IF is_ncon2 THEN "wrapper_mul_ncon"
         ELSE "wrapper_mul_con"
    ELSE IF is_ncon1
    THEN IF type2 = "add" THEN "wrapper_ncon_add"
         ELSE IF type2 = "mul" THEN "wrapper_ncon_mul"
         ELSE "wrapper_ncon_con"
    ELSE IF type2 = "add" THEN "wrapper_con_add"
         ELSE IF type2 = "mul" THEN "wrapper_con_mul"
         ELSE IF is_ncon2 THEN "wrapper_con_ncon"
         ELSE "wrapper_con_con"

\* the wrapper generate_func returns for node n of heap h
ShapeOf(h, n) ==
    IF ~h[n].is_operation THEN LeafShape(h[n].mtype, h[n].is_ncon)
    ELSE LET lh == h[h[n].predecessor[1]]
             rh == h[h[n].predecessor[2]]
         IN  Shape(h[n].name[1], lh.mtype, lh.is_ncon, rh.mtype, rh.is_ncon)

\* the positional arguments a wrapper takes: (p, e, *_), (p, e, f, *_),
\* (p, e, f, ff) and (p, _=None, f=None, ff=None)
Signature(shape) ==
    IF shape \in {"wrapper_add", "wrapper_mul", "wrapper_add_add", "wrapper_op",
                  "wrapper_ncon_add", "wrapper_con_add"}
    THEN [least |-> 2, most |-> 99]
    ELSE IF shape \in {"wrapper_con", "wrapper_mul_con", "wrapper_con_mul",
                       "wrapper_con_con"}
    THEN [least |-> 3, most |-> 99]
    ELSE IF shape = "wrapper_ncon"
    THEN [least |-> 1, most |-> 4]
    ELSE [least |-> 4, most |-> 4]

\* the k-th positional argument, None when a default stands in for it
Arg(args, k) == IF k <= Len(args) THEN args[k] ELSE None

\* what the evaluator generate_func(mapping) compiled for node n returns when
\* called with the positional arguments args
RECURSIVE Apply(_, _, _, _)
Apply(h, mapping, n, args) ==
    LET shape == ShapeOf(h, n)
        a1 == Arg(args, 1)
        a2 == Arg(args, 2)
        a3 == Arg(args, 3)
        a4 == Arg(args, 4)
    IN  IF Len(args) < Signature(shape).least \/ Len(args) > Signature(shape).most
        THEN ArityError
        ELSE IF ~h[n].is_operation
        THEN IF ~DictHas(mapping, LabelWithId(h, n, "name"))
             THEN MappingError
             ELSE LET model_name == DictGet(mapping, LabelWithId(h, n, "name"))
                  IN  IF shape \in {"wrapper_add", "wrapper_mul"}
                      THEN CallText(model_name, <<a2, KwText(a1, model_name)>>)
                      ELSE IF shape = "wrapper_ncon"
                      THEN CallText(model_name, <<a4, a3, KwText(a1, model_name)>>)
                      ELSE CallText(model_name, <<a2, a3, KwText(a1, model_name)>>)
        ELSE LET m1 == h[n].predecessor[1]
                 m2 == h[n].predecessor[2]
             IN  CASE shape = "wrapper_add_add" ->
                        BinText("+", Apply(h, mapping, m1, <<a1, a2>>),
                                     Apply(h, mapping, m2, <<a1, a2>>))
                   [] shape = "wrapper_op" ->
                        BinText("*", Apply(h, mapping, m1, <<a1, a2>>),
                                     Apply(h, mapping, m2, <<a1, a2>>))
                   [] shape = "wrapper_mul_ncon" ->
                        BinText("*", Apply(h, mapping, m1, <<a1, a2>>),
                                     Apply(h, mapping, m2, <<a1, a2, a3, a4>>))
                   [] shape = "wrapper_mul_con" ->
                        BinText("*", Apply(h, mapping, m1, <<a1, a2>>),
                                     Apply(h, mapping, m2, <<a1, a2, a3>>))
                   [] shape = "wrapper_ncon_add" ->
                        Apply(h, mapping, m1,
                              <<a1, a2, Apply(h, mapping, m2, <<a1, a2>>), FuncText(m2)>>)
                   [] shape = "wrapper_ncon_mul" ->
                        \* def wrapper_ncon_mul(e, p, f, ff): e is a1 and p is a2
                        LET e == a1
                            p == a2
                            m2_ff == LambdaText(
                                        BinText("*", Apply(h, mapping, m2, <<X1, X2>>),
                                                     ValueCallText(a4, <<X1, X2>>)))
                        IN  Apply(h, mapping, m1,
                                  <<p, e, BinText("*", Apply(h, mapping, m2, <<e, p>>), a3),
                                    m2_ff>>)
                   [] shape = "wrapper_ncon_con" ->
                        LET m2_ff == LambdaText(
                                        Apply(h, mapping, m2,
                                              <<X1, X2, ValueCallText(a4, <<X1, X2>>)>>))
                        IN  Apply(h, mapping, m1,
                                  <<a1, a2, Apply(h, mapping, m2, <<a1, a2, a3>>), m2_ff>>)
                   [] shape = "wrapper_con_add" ->
                        Apply(h, mapping, m1, <<a1, a2, Apply(h, mapping, m2, <<a1, a2>>)>>)
                   [] shape = "wrapper_con_mul" ->
                        Apply(h, mapping, m1,
                              <<a1, a2, BinText("*", Apply(h, mapping, m2, <<a1, a2>>), a3)>>)
                   [] shape = "wrapper_con_ncon" ->
                        Apply(h, mapping, m1,
                              <<a1, a2, Apply(h, mapping, m2, <<a1, a2, a3, a4>>)>>)
                   [] shape = "wrapper_con_con" ->
                        Apply(h, mapping, m1,
                              <<a1, a2, Apply(h, mapping, m2, <<a1, a2, a3>>)>>)

\* the text holds the mark of a call that raised
Raised(text) == \E j \in 1..Len(text) : text[j] \in {"TypeError", "KeyError"}

\* the exception that ended the call, "ok" when it returned
RaisedBy(text) ==
    IF \E j \in 1..Len(text) : text[j] = "KeyError" THEN "KeyError"
    ELSE IF \E j \in 1..Len(text) : text[j] = "TypeError" THEN "TypeError"
    ELSE "ok"

\* node.generate_func(mapping)(*args), the mapping being the name mapping of a
\* LabelSpace built on the node
GenerateFuncCall(n, args) ==
    LET mapping == GetSuffixMapping(nodes, n, "name")
        text == Apply(nodes, mapping, n, args)
    IN  /\ nodes[n].type = "model"
        /\ result' = Outcome("generate_func", RaisedBy(text), n, 0, 0, "", args, text)
        /\ UNCHANGED <<nodes, UUID, space>>

(***************************************************************************)
(* The composition algebra: model leaves of every kind and subkind, and    *)
(* every composition of two existing model nodes.                          *)
(***************************************************************************)
NoSpace == [made |-> FALSE, node |-> 0,
            label_space |-> [name |-> <<>>, fmt |-> <<>>],
            label_map |-> [name |-> <<>>, fmt |-> <<>>]]

Init ==
    /\ nodes = <<>>
    /\ UUID = <<>>
    /\ result = NoResult
    /\ space = NoSpace

NewModelLeaf ==
    /\ Len(nodes) < MaxNodes
    /\ \E k \in Kinds, id \in Uuid4 :
          ModelNodeInit(<<"M">>, <<"M">>, k.mtype, <<>>, k.is_ncon, id)

ComposeModels ==
    /\ Len(nodes) < MaxNodes
    /\ \E lh \in NodeIds, rh \in NodeIds, op \in Ops, id \in Uuid4 :
          ModelOperationNodeInit(lh, rh, op, id)

NextAlgebra == NewModelLeaf \/ ComposeModels

SpecAlgebra == Init /\ [][NextAlgebra]_vars

(***************************************************************************)
(* The parameter operations: parameter leaves, their compositions and      *)
(* updates of a default.                                                   *)
(***************************************************************************)
Values == 0..MaxValue

Distributions == {Fixed(PyInt(1)), Distribution(0, MaxValue - 1), NotADist}

NewParameter ==
    /\ Len(nodes) < MaxParams
    /\ \E default \in Values, dist \in Distributions, id \in Uuid4 :
          ParameterNodeInit(<<"p">>, <<"p">>, PyInt(default), dist, id)

ComposeParameters ==
    /\ Len(nodes) < MaxParams
    /\ \E lh \in NodeIds, rh \in NodeIds, op \in Ops, id \in Uuid4 :
          ParameterOperationNodeInit(lh, rh, op, id)

UpdateDefault ==
    \E n \in NodeIds, value \in {PyInt(v) : v \in Values} \cup {Str(0)} :
        DefaultSetter(n, value)

ReadDefault == \E n \in NodeIds : DefaultGetter(n)

NextParam == NewParameter \/ ComposeParameters \/ UpdateDefault \/ ReadDefault

SpecParam == Init /\ [][NextParam]_vars

(***************************************************************************)
(* Properties of the composition algebra                                   *)
(***************************************************************************)
\* the last call constructed (or failed to construct) lh op rh of two models
Composed(op) ==
    /\ result.call = "ModelOperationNode"
    /\ result.op = op
    /\ nodes[result.lh].type = "model"
    /\ nodes[result.rh].type = "model"

IsAdditive(n) == nodes[n].mtype = "add"
IsNormConvolution(n) == nodes[n].mtype = "con" /\ nodes[n].is_ncon

\* C1: for model nodes a, b of additive kind, leaf or composite, a * b raises
\* a construction error, and a + b does not raise and yields a composite of
\* additive kind.
Thm_C1 ==
    /\ (Composed("*") /\ IsAdditive(result.lh) /\ IsAdditive(result.rh))
          => /\ result.status = "TypeError"
             /\ result.node = 0
    /\ (Composed("+") /\ IsAdditive(result.lh) /\ IsAdditive(result.rh))
          => /\ result.status = "ok"
             /\ result.node = Len(nodes)
             /\ nodes[result.node].is_operation
             /\ nodes[result.node].predecessor = <<result.lh, result.rh>>
             /\ nodes[result.node].mtype = "add"

\* a sum of additive nodes exists and its product with an additive node raised
Wit_C1 ==
    /\ Composed("*")
    /\ IsAdditive(result.lh) /\ IsAdditive(result.rh)
    /\ nodes[result.lh].is_operation /\ nodes[result.lh].name = <<"+">>
    /\ ~nodes[result.rh].is_operation
    /\ result.status = "TypeError"

\* C2: for model nodes x, y of norm-convolution subkind, leaf or composite,
\* x * y raises a construction error, whichever of the two is on the left.
Thm_C2 ==
    (Composed("*") /\ IsNormConvolution(result.lh) /\ IsNormConvolution(result.rh))
        => /\ result.status = "TypeError"
           /\ result.node = 0

\* a composite norm-convolution times a norm-convolution leaf raised
Wit_C2 ==
    /\ Composed("*")
    /\ IsNormConvolution(result.lh) /\ IsNormConvolution(result.rh)
    /\ nodes[result.lh].is_operation /\ ~nodes[result.rh].is_operation
    /\ result.status = "TypeError"

\* the leaf nodes below n, n included when it is a leaf
RECURSIVE Leaves(_)
Leaves(n) ==
    IF ~nodes[n].is_operation THEN {n}
    ELSE Leaves(nodes[n].predecessor[1]) \cup Leaves(nodes[n].predecessor[2])

HasNormConvolutionLeaf(n) == \E l \in Leaves(n) : IsNormConvolution(l)

\* C3: in every model tree that construction accepts, no * composite has a
\* norm-convolution leaf under its left operand and a norm-convolution leaf
\* under its right operand.
Claim_C3 ==
    \A n \in NodeIds :
        (nodes[n].type = "model" /\ nodes[n].is_operation /\ nodes[n].name = <<"*">>)
            => ~(/\ HasNormConvolutionLeaf(nodes[n].predecessor[1])
                 /\ HasNormConvolutionLeaf(nodes[n].predecessor[2]))

\* the combinations the composition table of the specification allows
InTable(op, mtype1, is_ncon1, mtype2, is_ncon2) ==
    \/ op = "+" /\ mtype1 = "add" /\ mtype2 = "add"
    \/ op = "*" /\ mtype1 = "mul" /\ mtype2 = "add"
    \/ op = "*" /\ mtype1 = "mul" /\ mtype2 = "mul"
    \/ op = "*" /\ mtype1 # "add" /\ mtype2 = "con" /\ ~(is_ncon1 /\ is_ncon2)

\* the combinations construction accepts
Accepted(op, mtype1, is_ncon1, mtype2, is_ncon2) ==
    \/ op = "+" /\ mtype1 = "add" /\ mtype2 = "add"
    \/ /\ op = "*"
       /\ <<mtype1, mtype2>> \in {<<"add", "mul">>,
                                  <<"mul", "add">>, <<"mul", "mul">>, <<"mul", "con">>,
                                  <<"con", "add">>, <<"con", "mul">>, <<"con", "con">>}
       /\ ~(is_ncon1 /\ is_ncon2)

\* a call of the constructor on two models: it succeeds, appending the
\* composite, when allowed holds of the operands, and raises, leaving the heap
\* as it was, when it does not
SucceedsExactlyWhen(Allowed(_, _, _, _, _)) ==
    (result'.call = "ModelOperationNode" /\ nodes[result'.lh].type = "model"
        /\ nodes[result'.rh].type = "model")
      => LET l == nodes[result'.lh]
             r == nodes[result'.rh]
         IN  IF Allowed(result'.op, l.mtype, l.is_ncon, r.mtype, r.is_ncon)
             THEN /\ result'.status = "ok"
                  /\ Len(nodes') = Len(nodes) + 1
                  /\ result'.node = Len(nodes')
             ELSE /\ result'.status = "TypeError"
                  /\ nodes' = nodes

\* C4 as stated: construction succeeds only for additive + additive,
\* multiplicative * additive, multiplicative * multiplicative and
\* non-additive * convolution with at most one norm operand, and raises for
\* every other combination.
Claim_C4 == [][result' # result => SucceedsExactlyWhen(InTable)]_vars

\* C4: construction succeeds exactly for additive + additive and, for *, for
\* every pair of kinds other than additive * additive and additive *
\* convolution whose operands do not both carry the norm flag; for every other
\* combination it raises at once and constructs nothing.
Thm_C4 == [][result' # result => SucceedsExactlyWhen(Accepted)]_vars

\* a convolution leaf times an additive composite was accepted
Wit_C4 ==
    /\ Composed("*")
    /\ result.status = "ok"
    /\ nodes[result.lh].mtype = "con" /\ ~nodes[result.lh].is_operation
    /\ nodes[result.rh].mtype = "add" /\ nodes[result.rh].is_operation

\* node n is a composite of models
IsModelTree(n) == nodes[n].type = "model" /\ nodes[n].is_operation

\* the wrappers of ModelOperationNode.generate_func
Shapes ==
    {"wrapper_add_add", "wrapper_op", "wrapper_mul_ncon", "wrapper_mul_con",
     "wrapper_ncon_add", "wrapper_ncon_mul", "wrapper_ncon_con",
     "wrapper_con_add", "wrapper_con_mul", "wrapper_con_ncon", "wrapper_con_con"}

\* add, mul, con, and ncon for the convolution that acts on the norm
KindName(mtype, is_ncon) == IF mtype = "con" /\ is_ncon THEN "ncon" ELSE mtype

\* the wrapper whose name and docstring say the operator and the operand kinds
ShapeNamed(op, kind1, kind2) ==
    IF op = "+" THEN "wrapper_" \o kind1 \o "_" \o kind2
    ELSE IF kind1 \in {"add", "mul"} /\ kind2 \in {"add", "mul"} THEN "wrapper_op"
    ELSE "wrapper_" \o kind1 \o "_" \o kind2

\* C18: for every composite that construction accepts, generate_func selects
\* one wrapper of the dispatch, the one written for the operator and the
\* kinds of the two operands; and every wrapper of the dispatch is selected
\* for a combination of operator and operand kinds that construction accepts.
Thm_C18 ==
    /\ \A n \in NodeIds :
          IsModelTree(n)
              => LET lh == nodes[nodes[n].predecessor[1]]
                     rh == nodes[nodes[n].predecessor[2]]
                 IN  /\ ShapeOf(nodes, n) \in Shapes
                     /\ ShapeOf(nodes, n) =
                           ShapeNamed(nodes[n].name[1], KindName(lh.mtype, lh.is_ncon),
                                      KindName(rh.mtype, rh.is_ncon))
    /\ \A shape \in Shapes :
          \E op \in Ops, k1 \in Kinds, k2 \in Kinds :
              /\ OpLegal(op, k1.mtype, k1.is_ncon, k2.mtype, k2.is_ncon) = "ok"
              /\ Shape(op, k1.mtype, k1.is_ncon, k2.mtype, k2.is_ncon) = shape

\* a flux convolution * a norm convolution was accepted, and generate_func
\* selects wrapper_con_ncon for it
Wit_C18 ==
    \E n \in NodeIds :
        /\ IsModelTree(n)
        /\ ShapeOf(nodes, n) = "wrapper_con_ncon"
        /\ result.node = n /\ result.status = "ok"

(***************************************************************************)
(* Properties of the parameter nodes                                       *)
(***************************************************************************)
IsParameterLeaf(n) == nodes[n].type = "parameter" /\ ~nodes[n].is_operation

\* the value v lies in the support of the distribution, or is the fixed value
WithinSupport(dist, v) ==
    /\ v.t \in {"int", "float"}
    /\ \/ dist.kind = "Distribution" /\ v.v \in dist.lo..dist.hi
       \/ dist.kind = "number" /\ v.v = dist.value.v

\* a construction or an update with an invalid default raises and changes
\* nothing; an update with a valid one stores it
InvalidDefaultRaises ==
    /\ (result'.call = "ParameterNode"
          /\ ~WithinSupport(result'.args[2], result'.args[1]))
        => /\ result'.status = "ValueError"
           /\ nodes' = nodes
    /\ (result'.call = "default.setter" /\ IsParameterLeaf(result'.node))
        => IF WithinSupport(nodes[result'.node].distribution, result'.args[1])
           THEN /\ result'.status = "ok"
                /\ nodes'[result'.node].default.v = result'.args[1].v
           ELSE /\ result'.status = "ValueError"
                /\ nodes' = nodes

\* C6: the default of every parameter leaf lies within the support of its
\* distribution, or equals its fixed constant, after construction and after
\* any sequence of default updates; a construction with an invalid default
\* raises, and an update with an invalid value raises and leaves the default
\* at its previous value.
Thm_C6 ==
    /\ [](\A n \in NodeIds :
            IsParameterLeaf(n) => WithinSupport(nodes[n].distribution, nodes[n].default))
    /\ [][result' # result => InvalidDefaultRaises]_vars

\* an update of a leaf with a value outside its support raised, after an
\* earlier update of that leaf had succeeded
Wit_C6 ==
    /\ result.call = "default.setter"
    /\ result.status = "ValueError"
    /\ IsParameterLeaf(result.node)
    /\ result.args[1].t = "int"
    /\ nodes[result.node].distribution.kind = "Distribution"
    /\ nodes[result.node].default.t = "float"

\* C7: the default of p + q is p.default + q.default and the default of p * q
\* is p.default * q.default, for leaf and composite operands, in every state,
\* the states after an update of a leaf below p or q included; a read of the
\* property returns that value.
Thm_C7 ==
    \A n \in NodeIds :
        (nodes[n].type = "parameter" /\ nodes[n].is_operation)
          => LET p == Default(nodes[n].predecessor[1])
                 q == Default(nodes[n].predecessor[2])
                 read == IF result.call = "default" /\ result.node = n
                         THEN result.value[1] ELSE Default(n)
             IN  /\ nodes[n].name = <<"+">> => read.v = p.v + q.v /\ Default(n).v = p.v + q.v
                 /\ nodes[n].name = <<"*">> => read.v = p.v * q.v /\ Default(n).v = p.v * q.v

\* the default of a product with a composite operand was read after an update
\* of a leaf below it, and it differs from the sum of the operands' defaults
Wit_C7 ==
    /\ result.call = "default"
    /\ nodes[result.node].is_operation
    /\ nodes[result.node].name = <<"*">>
    /\ nodes[nodes[result.node].predecessor[1]].is_operation
    /\ ~nodes[nodes[result.node].predecessor[2]].is_operation
    /\ nodes[nodes[result.node].predecessor[2]].default.t = "float"
    /\ result.value[1].v # Default(nodes[result.node].predecessor[1]).v
                             + Default(nodes[result.node].predecessor[2]).v

(***************************************************************************)
(* Label rendering: components of a small catalogue are composed, and the  *)
(* finished tree is rendered through a LabelSpace.                         *)
(***************************************************************************)
\* nodes constructed in a run of the label rendering
MaxLabelNodes == 5

\* the raw labels: PowerLaw2 is PowerLaw followed by the digit 2
Components ==
    {[name |-> <<"PowerLaw">>, fmt |-> <<"PL">>, mtype |-> "add"],
     [name |-> <<"PowerLaw", "2">>, fmt |-> <<"PL", "_", "2">>, mtype |-> "add"],
     [name |-> <<"PhAbs">>, fmt |-> <<"PhAbs">>, mtype |-> "mul"]}

\* the leaves of an expression are constructed before it composes them
NewComponent ==
    /\ ~space.made
    /\ \A n \in NodeIds : ~nodes[n].is_operation
    /\ Len(nodes) < MaxLabelNodes
    /\ \E c \in Components, id \in Uuid4 :
          ModelNodeInit(c.name, c.fmt, c.mtype, <<>>, FALSE, id)

\* the compositions written are those the composition algebra accepts
ComposeComponents ==
    /\ ~space.made
    /\ Len(nodes) < MaxLabelNodes
    /\ \E lh \in NodeIds, rh \in NodeIds, op \in Ops, id \in Uuid4 :
          /\ OpLegal(op, nodes[lh].mtype, nodes[lh].is_ncon,
                     nodes[rh].mtype, nodes[rh].is_ncon) = "ok"
          /\ ModelOperationNodeInit(lh, rh, op, id)

\* LabelSpace(node) of the tree just finished
NewLabelSpace ==
    /\ ~space.made
    /\ Len(nodes) >= 1
    /\ LabelSpaceInit(Len(nodes))

ReadName == space.made /\ LabelSpaceLabel("name")

ReadFmt == space.made /\ LabelSpaceLabel("fmt")

NextLabel == NewComponent \/ ComposeComponents \/ NewLabelSpace \/ ReadName \/ ReadFmt

SpecLabel == Init /\ [][NextLabel]_vars

(***************************************************************************)
(* Models with their parameters: parameter leaves, model leaves of every   *)
(* kind over them, compositions from either side, updates of a default,    *)
(* reads of comps and renders of the labels.                               *)
(***************************************************************************)
\* nodes constructed in a run of the models with parameters
MaxModelNodes == 3

NewModelParameter ==
    /\ Len(nodes) < MaxModelNodes
    /\ \E id \in Uuid4 :
          ParameterNodeInit(<<"p">>, <<"p">>, PyInt(0), Distribution(0, 1), id)

NewModel ==
    /\ Len(nodes) < MaxModelNodes
    /\ \E k \in Kinds, params \in {<<>>} \cup {<<p>> : p \in NodeIds}, id \in Uuid4 :
          ModelNodeInit(<<"M">>, <<"M">>, k.mtype, params, k.is_ncon, id)

\* lh + rh and lh * rh: the __add__ and __mul__ of the class of lh
Compose ==
    /\ Len(nodes) < MaxModelNodes
    /\ \E lh \in NodeIds, rh \in NodeIds, op \in Ops, id \in Uuid4 :
          IF nodes[lh].type = "parameter"
          THEN ParameterOperationNodeInit(lh, rh, op, id)
          ELSE ModelOperationNodeInit(lh, rh, op, id)

UpdateParameterDefault ==
    \E n \in NodeIds, v \in 1..2 :
        /\ nodes[n].type = "parameter"
        /\ DefaultSetter(n, PyInt(v))

ReadComps == \E n \in NodeIds : CompsGetter(n)

Next ==
    \/ NewModelParameter \/ NewModel \/ Compose \/ UpdateParameterDefault
    \/ ReadComps \/ NewLabelSpace \/ ReadName \/ ReadFmt

Spec == Init /\ [][Next]_vars

(***************************************************************************)
(* Relabelling: a tree of parameters is rendered through a LabelSpace,     *)
(* and between the renders the raw labels and the defaults of its leaves   *)
(* are changed.                                                            *)
(***************************************************************************)
\* nodes constructed in a run of the relabelling
MaxRelabelNodes == 3

RelabelNames == {<<"alpha">>, <<"K">>}
RelabelFmts == {<<"\\alpha">>, <<"K">>}

NewRelabelParameter ==
    /\ ~space.made
    /\ \A n \in NodeIds : ~nodes[n].is_operation
    /\ Len(nodes) < MaxRelabelNodes
    /\ \E id \in Uuid4 :
          ParameterNodeInit(<<"alpha">>, <<"\\alpha">>, PyInt(0), Distribution(0, 1), id)

ComposeRelabel ==
    /\ ~space.made
    /\ Len(nodes) < MaxRelabelNodes
    /\ \E lh \in NodeIds, rh \in NodeIds, op \in Ops, id \in Uuid4 :
          ParameterOperationNodeInit(lh, rh, op, id)

\* the leaves of the rendered tree, as the walk of the LabelSpace meets them
SpaceLeaves ==
    {GetSubNodesLabel(nodes, space.node, "name")[j][1] :
        j \in 1..Len(GetSubNodesLabel(nodes, space.node, "name"))}

SetName ==
    /\ space.made
    /\ \E n \in SpaceLeaves, label \in RelabelNames : AttrsSet(n, "name", label)

\* the leftmost leaf of the rendered tree
FirstLeaf == GetSubNodesLabel(nodes, space.node, "name")[1][1]

SetFmt ==
    /\ space.made
    /\ \E label \in RelabelFmts : AttrsSet(FirstLeaf, "fmt", label)

UpdateLeafDefault ==
    /\ space.made
    /\ \E v \in 1..2 : DefaultSetter(FirstLeaf, PyInt(v))

NextRelabel ==
    \/ NewRelabelParameter \/ ComposeRelabel \/ NewLabelSpace
    \/ ReadName \/ ReadFmt \/ SetName \/ SetFmt \/ UpdateLeafDefault

SpecRelabel == Init /\ [][NextRelabel]_vars

(***************************************************************************)
(* Evaluation: model leaves of every kind are composed, and the evaluator  *)
(* compiled for the tree built last is called.                             *)
(***************************************************************************)
\* nodes constructed in a run of the evaluation
MaxEvalNodes == 5

\* one component of each kind, in the order in which a script declares them
EvalComponents ==
    <<[name |-> <<"PowerLaw">>, mtype |-> "add", is_ncon |-> FALSE],
      [name |-> <<"PhAbs">>, mtype |-> "mul", is_ncon |-> FALSE],
      [name |-> <<"Conv">>, mtype |-> "con", is_ncon |-> FALSE],
      [name |-> <<"EnFlux">>, mtype |-> "con", is_ncon |-> TRUE]>>

\* the place of the component of leaf n in that order
ComponentOf(n) == CHOOSE j \in 1..Len(EvalComponents) : EvalComponents[j].name = nodes[n].name

NewEvalLeaf ==
    /\ Len(nodes) + 2 < MaxEvalNodes
    /\ \A n \in NodeIds : ~nodes[n].is_operation
    /\ \E j \in 1..Len(EvalComponents), id \in Uuid4 :
          /\ \A n \in NodeIds : ComponentOf(n) <= j
          /\ ModelNodeInit(EvalComponents[j].name, EvalComponents[j].name,
                           EvalComponents[j].mtype, <<>>, EvalComponents[j].is_ncon, id)

ComposeEval ==
    /\ Len(nodes) < MaxEvalNodes
    /\ \E lh \in NodeIds, rh \in NodeIds, op \in Ops, id \in Uuid4 :
          /\ OpLegal(op, nodes[lh].mtype, nodes[lh].is_ncon,
                     nodes[rh].mtype, nodes[rh].is_ncon) = "ok"
          /\ ModelOperationNodeInit(lh, rh, op, id)

\* the arguments of the outermost call: the parameter map, the energy grid,
\* the flux and the flux evaluator
P == <<"p">>
E == <<"e">>
F == <<"f">>
FF == <<"ff">>

\* evaluate(p, e) and evaluate(p, e, f, ff) on the tree constructed last
Evaluate ==
    /\ Len(nodes) >= 1
    /\ \E args \in {<<P, E>>, <<P, E, F, FF>>} : GenerateFuncCall(Len(nodes), args)

NextEval == NewEvalLeaf \/ ComposeEval \/ Evaluate

SpecEval == Init /\ [][NextEval]_vars

(***************************************************************************)
(* Sites of parameters: parameter leaves with and without a derived        *)
(* quantity are composed, and the site map of the tree built last is read. *)
(***************************************************************************)
\* nodes constructed in a run of the sites of parameters
MaxSiteNodes == 4

\* a template entry that is a str
Template(text) == [is_str |-> TRUE, text |-> text]

\* deterministic of a leaf: none, the logarithm of the parameter, and a
\* derived quantity named as the parameter itself
SiteDeterministics ==
    {NoDeterministic,
     Deterministic(<<Template(<<"log", "(", "{name}", ")">>)>>, TRUE),
     Deterministic(<<Template(<<"{name}">>)>>, TRUE)}

NewSiteParameter ==
    /\ Len(nodes) + 2 < MaxSiteNodes
    /\ \A n \in NodeIds : ~nodes[n].is_operation
    /\ \E determ \in SiteDeterministics, id \in Uuid4 :
          ParameterNodeInitWith(<<"a">>, <<"a">>, PyInt(1), Distribution(0, MaxValue),
                                determ, id)

ComposeSite ==
    /\ Len(nodes) < MaxSiteNodes
    /\ \E lh \in NodeIds, rh \in NodeIds, op \in Ops, id \in Uuid4 :
          ParameterOperationNodeInit(lh, rh, op, id)

ReadSite == Len(nodes) >= 1 /\ SiteGetter(Len(nodes))

NextSite == NewSiteParameter \/ ComposeSite \/ ReadSite

SpecSite == Init /\ [][NextSite]_vars

(***************************************************************************)
(* Ids: nodes are constructed while uuid4 draws from a pool so small that  *)
(* it can return a value it returned before.                               *)
(***************************************************************************)
\* nodes constructed in a run of the ids, and values uuid4 can return
MaxIdNodes == 3

Uuid4Pool == {Hex(i) : i \in 1..MaxIdNodes}

NewIdLeaf ==
    /\ Len(nodes) < MaxIdNodes
    /\ \E k \in Kinds, id \in Uuid4Pool :
          ModelNodeInit(<<"M">>, <<"M">>, k.mtype, <<>>, k.is_ncon, id)

ComposeIds ==
    /\ Len(nodes) < MaxIdNodes
    /\ \E lh \in NodeIds, rh \in NodeIds, op \in Ops, id \in Uuid4Pool :
          ModelOperationNodeInit(lh, rh, op, id)

NextIds == NewIdLeaf \/ ComposeIds

SpecIds == Init /\ [][NextIds]_vars

(***************************************************************************)
(* Deterministic arguments: parameter leaves are constructed with well and *)
(* ill formed deterministic arguments, and their site maps are read.       *)
(***************************************************************************)
\* nodes constructed in a run of the deterministic arguments
MaxDeterministicNodes == 2

LogTemplate == Template(<<"log", "(", "{name}", ")">>)

\* an entry of the template tuple that is not a str
NotAStr == [is_str |-> FALSE, text |-> <<>>]

\* None; one template and a function; no template; two templates; a
\* combinator that is not callable; a template that is not a str; a tuple of
\* three elements; and an argument that is no tuple
DeterministicArguments ==
    {NoDeterministic,
     Deterministic(<<LogTemplate>>, TRUE),
     Deterministic(<<>>, TRUE),
     Deterministic(<<LogTemplate, LogTemplate>>, TRUE),
     Deterministic(<<LogTemplate>>, FALSE),
     Deterministic(<<NotAStr>>, TRUE),
     [Deterministic(<<LogTemplate>>, TRUE) EXCEPT !.size = 3],
     NotATuple}

NewDeterministicParameter ==
    /\ Len(nodes) < MaxDeterministicNodes
    /\ \E name \in {<<"a">>, <<"b">>}, determ \in DeterministicArguments, id \in Uuid4 :
          ParameterNodeInitWith(name, name, PyInt(1), Distribution(0, MaxValue), determ, id)

ReadLeafSite == \E n \in NodeIds : SiteGetter(n)

NextDeterministic == NewDeterministicParameter \/ ReadLeafSite

SpecDeterministic == Init /\ [][NextDeterministic]_vars

(***************************************************************************)
(* Relabelling with reads of the mapping                                   *)
(***************************************************************************)
ReadMapping == space.made /\ LabelSpaceMapping

NextMapping == NextRelabel \/ ReadMapping

SpecMapping == Init /\ [][NextMapping]_vars

(***************************************************************************)
(* Sites of models: the models with parameters, and reads of the site map  *)
(* of a model tree.                                                        *)
(***************************************************************************)
ReadModelSite == \E n \in NodeIds : nodes[n].type = "model" /\ SiteGetter(n)

NextModelSite ==
    NewModelParameter \/ NewModel \/ Compose \/ UpdateParameterDefault \/ ReadModelSite

SpecModelSite == Init /\ [][NextModelSite]_vars

(***************************************************************************)
(* Properties of the models with parameters                                *)
(***************************************************************************)
IsModelComposite(n) == nodes[n].type = "model" /\ nodes[n].is_operation

\* the kind and subkind a composite of operands l and r is to have
KindOfOperands(l, r) ==
    IF l.mtype = "add" \/ r.mtype = "add"
    THEN [mtype |-> "add", is_ncon |-> FALSE]
    ELSE IF l.mtype = "con" \/ r.mtype = "con"
         THEN [mtype |-> "con",
               is_ncon |-> (  (l.mtype = "con" /\ l.is_ncon)
                           \/ (r.mtype = "con" /\ r.is_ncon))]
         ELSE [mtype |-> "mul", is_ncon |-> FALSE]

\* C5: a composite is additive, without the norm flag, when either operand is
\* additive; otherwise a convolution when either operand is one, with the norm
\* flag iff either operand is a norm-convolution; otherwise multiplicative.
\* No later composition, default update or render changes the kind or the
\* subkind of a node.
Thm_C5 ==
    /\ [](\A n \in NodeIds :
            IsModelComposite(n)
              => LET k == KindOfOperands(nodes[nodes[n].predecessor[1]],
                                         nodes[nodes[n].predecessor[2]])
                 IN  nodes[n].mtype = k.mtype /\ nodes[n].is_ncon = k.is_ncon)
    /\ [][\A n \in NodeIds :
            /\ n \in 1..Len(nodes')
            /\ nodes'[n].mtype = nodes[n].mtype
            /\ nodes'[n].is_ncon = nodes[n].is_ncon]_vars

\* a norm-convolution leaf times an additive leaf, an additive composite
\* without the norm flag, was rendered after its construction
Wit_C5 ==
    /\ result.call = "LabelSpace.name"
    /\ IsModelComposite(space.node)
    /\ IsNormConvolution(nodes[space.node].predecessor[1])
    /\ nodes[nodes[space.node].predecessor[2]].mtype = "add"
    /\ nodes[space.node].mtype = "add" /\ ~nodes[space.node].is_ncon

\* the walks from a node: at each operation, to operand 1 or to operand 2
Walks == UNION {[1..d -> {1, 2}] : d \in 0..Len(nodes)}

\* the node walk w ends at when started at n; 0 when w runs past a leaf
RECURSIVE EndOf(_, _)
EndOf(n, w) ==
    IF w = <<>> THEN n
    ELSE IF ~nodes[n].is_operation THEN 0
    ELSE EndOf(nodes[n].predecessor[Head(w)], Tail(w))

\* the walks that end at a leaf: one for each occurrence of a leaf below n
LeafWalks(n) == {w \in Walks : EndOf(n, w) # 0 /\ ~nodes[EndOf(n, w)].is_operation}

\* walk v is to the left of walk w
LeftOf(v, w) ==
    \E j \in 1..Len(v) :
        /\ j <= Len(w)
        /\ \A i \in 1..(j - 1) : v[i] = w[i]
        /\ v[j] < w[j]

CrossTypeCall(r) ==
    /\ r.call \in {"ParameterOperationNode", "ModelOperationNode"}
    /\ nodes[r.lh].type # nodes[r.rh].type

\* C13: + or * between a parameter node and a model node, with either as the
\* left operand and through the operators of either class, raises TypeError,
\* constructs no node and leaves every node, the operands among them, as it
\* was.
Thm_C13 ==
    [][CrossTypeCall(result')
          => /\ result'.status = "TypeError"
             /\ result'.node = 0
             /\ nodes' = nodes]_vars

\* a model * a parameter was refused
Wit_C13 ==
    /\ result.call = "ModelOperationNode" /\ result.status = "TypeError"
    /\ result.op = "*"
    /\ nodes[result.lh].type = "model" /\ nodes[result.rh].type = "parameter"

\* C14: a construction that draws an id already issued to a node raises, so
\* no two nodes ever carry the same id.
Claim_C14 ==
    \A n \in NodeIds, m \in NodeIds : n # m => nodes[n].id # nodes[m].id

\* the deterministic argument is None or one str template and a callable
WellFormed(determ) ==
    determ.given =>
        /\ determ.is_tuple /\ determ.size = 2 /\ determ.first_is_tuple
        /\ determ.callable
        /\ Len(determ.templates) = 1
        /\ \A j \in 1..Len(determ.templates) : determ.templates[j].is_str

\* C15: a deterministic argument of the wrong arity, with a combinator that
\* is not callable or with a template that is not a str is refused at
\* construction, so every parameter leaf that exists has a well formed
\* deterministic argument and a site map that can be read.
Claim_C15 ==
    \A n \in NodeIds :
        (nodes[n].type = "parameter" /\ ~nodes[n].is_operation)
            => /\ WellFormed(nodes[n].deterministic)
               /\ Site(nodes, n).status = "ok"

(***************************************************************************)
(* Properties of the label rendering                                       *)
(***************************************************************************)
\* the leaves below n from left to right, a leaf met twice listed twice
RECURSIVE LeafSeq(_)
LeafSeq(n) ==
    IF ~nodes[n].is_operation THEN <<n>>
    ELSE LeafSeq(nodes[n].predecessor[1]) \o LeafSeq(nodes[n].predecessor[2])

\* the position at which leaf l is first met below root
FirstAt(root, l) ==
    CHOOSE j \in 1..Len(LeafSeq(root)) :
        /\ LeafSeq(root)[j] = l
        /\ \A i \in 1..(j - 1) : LeafSeq(root)[i] # l

\* leaf l is the k-th distinct leaf below root that carries its raw label
RankOf(root, l, label_type) ==
    1 + Cardinality({m \in Leaves(root) :
                        /\ m # l
                        /\ Attr(nodes, m, label_type) = Attr(nodes, l, label_type)
                        /\ FirstAt(root, m) < FirstAt(root, l)})

\* what leaf l is to render as: its raw label, followed from the second leaf
\* of that label on by k in the name and by _k in the fmt
Disambiguated(root, l, label_type) ==
    LET k == RankOf(root, l, label_type)
    IN  Attr(nodes, l, label_type) \o
        (IF k = 1 THEN <<>>
         ELSE IF label_type = "name" THEN <<ToString(k)>> ELSE <<"_", ToString(k)>>)

\* what the tree below n is to render as, within the tree below root
RECURSIVE Rendering(_, _, _)
Rendering(root, n, label_type) ==
    IF ~nodes[n].is_operation THEN Disambiguated(root, n, label_type)
    ELSE LET lh == nodes[n].predecessor[1]
             rh == nodes[n].predecessor[2]
             wrap(m) == IF nodes[n].name = <<"*">> /\ nodes[m].name = <<"+">>
                        THEN <<"(">> \o Rendering(root, m, label_type) \o <<")">>
                        ELSE Rendering(root, m, label_type)
         IN  wrap(lh) \o <<" ">> \o Attr(nodes, n, label_type) \o <<" ">> \o wrap(rh)

Rendered(label_type) == result.call = "LabelSpace." \o label_type

IsLeafLabelled(n, name) == ~nodes[n].is_operation /\ nodes[n].name = name

\* the node is lh op rh, of two distinct leaves with the given raw names
IsPair(n, op, lname, rname) ==
    /\ nodes[n].is_operation /\ nodes[n].name = <<op>>
    /\ nodes[n].predecessor[1] # nodes[n].predecessor[2]
    /\ IsLeafLabelled(nodes[n].predecessor[1], lname)
    /\ IsLeafLabelled(nodes[n].predecessor[2], rname)

Disambiguation(l, label_type) ==
    DictGet(space.label_map[label_type], LabelWithId(nodes, l, label_type))

\* C19: in a LabelSpace no two distinct leaves have the same disambiguated
\* name, nor the same disambiguated fmt, whatever the raw labels, one raw
\* label being another followed by a number included.
Claim_C19 ==
    space.made
        => \A l1 \in Leaves(space.node), l2 \in Leaves(space.node) :
              l1 # l2
                  => /\ Disambiguation(l1, "name") # Disambiguation(l2, "name")
                     /\ Disambiguation(l1, "fmt") # Disambiguation(l2, "fmt")

(***************************************************************************)
(* Properties of the relabelling                                           *)
(***************************************************************************)
\* what a LabelSpace constructed now on the rendered tree would render
FreshText(h, label_type) == LabelText(h, LabelSpaceOf(h, space.node), label_type)

\* the suffix of every leaf of the rendered tree, as computed now
Suffixes(h, label_type) == GetSuffixMapping(h, space.node, label_type)

LabelTypes == {"name", "fmt"}

\* a render returns what a LabelSpace constructed at that moment returns
RenderIsCurrent ==
    \A t \in LabelTypes :
        Rendered(t) => result.status = "ok" /\ result.value = FreshText(nodes, t)

\* an update of a default, accepted or refused, leaves the LabelSpace, the
\* suffix of every leaf and the text to render as they were
DefaultKeepsLabels ==
    (result' # result /\ result'.call = "default.setter")
        => /\ space' = space
           /\ \A t \in LabelTypes :
                 /\ Suffixes(nodes', t) = Suffixes(nodes, t)
                 /\ FreshText(nodes', t) = FreshText(nodes, t)

\* a render that follows a render of the same label returns the same text
RenderRepeats ==
    \A t \in LabelTypes :
        (Rendered(t) /\ result'.call = result.call) => result'.value = result.value

\* C10: a LabelSpace is safe to keep across mutations of the leaves: a render
\* after a change of a leaf's raw name or fmt, or of a parameter leaf's
\* default, returns what a LabelSpace constructed at that moment would return;
\* an update of a default leaves every suffix unchanged; and two renders with
\* no mutation in between return the same text.
Thm_C10 == []RenderIsCurrent /\ [][DefaultKeepsLabels /\ RenderRepeats]_vars

\* alpha + alpha was constructed and put in a LabelSpace, then one leaf was
\* renamed and the default of a leaf updated, and the name was rendered
Wit_C10 ==
    /\ Rendered("name")
    /\ result.value = <<"alpha", " ", "+", " ", "K">>
    /\ \E n \in SpaceLeaves : nodes[n].default = PyFloat(1)

(***************************************************************************)
(* Properties of the evaluation                                            *)
(***************************************************************************)
Evaluated(args) == result.call = "generate_func" /\ result.args = args

IsLeafOfKind(n, mtype, is_ncon) ==
    /\ nodes[n].type = "model" /\ ~nodes[n].is_operation
    /\ nodes[n].mtype = mtype /\ nodes[n].is_ncon = is_ncon

\* node n is A * (B + C): A a norm-convolution leaf, B and C additive leaves
IsNconTimesSum(n) ==
    /\ nodes[n].is_operation /\ nodes[n].name = <<"*">>
    /\ IsLeafOfKind(nodes[n].predecessor[1], "con", TRUE)
    /\ LET s == nodes[n].predecessor[2]
       IN  /\ nodes[s].is_operation /\ nodes[s].name = <<"+">>
           /\ IsLeafOfKind(nodes[s].predecessor[1], "add", FALSE)
           /\ IsLeafOfKind(nodes[s].predecessor[2], "add", FALSE)

\* the display name the mapping of the tree under root gives leaf n
ModelName(root, n) ==
    DictGet(GetSuffixMapping(nodes, root, "name"), LabelWithId(nodes, n, "name"))

\* the function of additive leaf n on the grid e with the parameters p holds
AdditiveValue(root, n, p, e) ==
    CallText(ModelName(root, n), <<e, KwText(p, ModelName(root, n))>>)

\* C11: the evaluator compiled for A * (B + C), called with the parameters and
\* the energy grid, returns the function of A on the flux evaluator that is
\* the evaluator compiled for B + C, on the flux B(p, e) + C(p, e), and on A's
\* own parameters.
Thm_C11 ==
    (Evaluated(<<P, E>>) /\ IsNconTimesSum(result.node))
        => LET n == result.node
               A == nodes[n].predecessor[1]
               S == nodes[n].predecessor[2]
               B == nodes[S].predecessor[1]
               C == nodes[S].predecessor[2]
               flux == BinText("+", AdditiveValue(n, B, P, E), AdditiveValue(n, C, P, E))
           IN  /\ result.status = "ok"
               /\ result.value = CallText(ModelName(n, A),
                                          <<FuncText(S), flux, KwText(P, ModelName(n, A))>>)

\* EnFlux * (PowerLaw + PowerLaw), of two distinct PowerLaw leaves, was
\* evaluated on the parameters and the grid
Wit_C11 ==
    /\ Evaluated(<<P, E>>)
    /\ IsNconTimesSum(result.node)
    /\ LET S == nodes[result.node].predecessor[2]
       IN  nodes[S].predecessor[1] # nodes[S].predecessor[2]
    /\ result.status = "ok"

(***************************************************************************)
(* Properties of the sites of parameters                                   *)
(***************************************************************************)
\* the composites of the tree under n
RECURSIVE Composites(_)
Composites(n) ==
    IF ~nodes[n].is_operation THEN {}
    ELSE {n} \cup Composites(nodes[n].predecessor[1])
             \cup Composites(nodes[n].predecessor[2])

NameOf(n) == LabelWithId(nodes, n, "name")

DictKeys(d) == {d[j][1] : j \in 1..Len(d)}

\* the site map of a tree of parameters was read
SiteRead ==
    /\ result.call = "site" /\ result.status = "ok"
    /\ nodes[result.node].type = "parameter"

\* the names a deterministic entry depends on
DependenciesOf(deterministic, key) ==
    {DictGet(deterministic, key)[1][j] : j \in 1..Len(DictGet(deterministic, key)[1])}

\* the keys that can be evaluated in rounds, each after its dependencies: a
\* dependency that is no deterministic key is a sample site
RECURSIVE Resolvable(_, _, _)
Resolvable(deterministic, done, rounds) ==
    IF rounds = 0 THEN done
    ELSE Resolvable(deterministic,
                    done \cup {k \in DictKeys(deterministic) :
                                  \A d \in DependenciesOf(deterministic, k) :
                                      d \notin DictKeys(deterministic) \/ d \in done},
                    rounds - 1)

Acyclic(deterministic) ==
    Resolvable(deterministic, {}, Len(deterministic)) = DictKeys(deterministic)

\* the value the replay gives the site named key: a sample site has the value
\* of its leaf, a deterministic site the combination of its dependencies
RECURSIVE Replay(_, _, _, _)
Replay(root, deterministic, key, fuel) ==
    IF DictHas(deterministic, key) /\ DictGet(deterministic, key)[2] # LeafFunc /\ fuel > 0
    THEN LET entry == DictGet(deterministic, key)
             x == Replay(root, deterministic, entry[1][1], fuel - 1)
             y == Replay(root, deterministic, entry[1][2], fuel - 1)
         IN  IF entry[2] = "+" THEN PyAdd(x, y) ELSE PyMul(x, y)
    ELSE IF \E l \in Leaves(root) : NameOf(l) = key
    THEN nodes[CHOOSE l \in Leaves(root) : NameOf(l) = key].default
    ELSE Str(0)

OperatorOf(c) == IF nodes[c].name = <<"+">> THEN "+" ELSE "*"

\* the sample map holds the distribution of every leaf under its name, and
\* nothing else
SampleOfLeaves(root, sample) ==
    /\ DictKeys(sample) = {NameOf(l) : l \in Leaves(root)}
    /\ \A l \in Leaves(root) : DictGet(sample, NameOf(l)) = nodes[l].distribution

\* every dependency of a deterministic entry is a key of one of the two maps
DependenciesAreKeys(sample, deterministic) ==
    \A k \in DictKeys(deterministic) :
        DependenciesOf(deterministic, k) \subseteq DictKeys(sample) \cup DictKeys(deterministic)

\* the replay gives every composite the combination of its operands
ReplayGivesDefaults(root, deterministic) ==
    \A c \in Composites(root) :
        PyEq(Replay(root, deterministic, NameOf(c), Len(deterministic)), Default(c))

\* no leaf of the tree derives a quantity under the leaf's own name
NoLeafDerivesItself(root) ==
    \A l \in Leaves(root) :
        nodes[l].deterministic.given =>
            \A j \in 1..Len(nodes[l].deterministic.templates) :
                Format(nodes[l].deterministic.templates[j].text, NameOf(l)) # NameOf(l)

KeywordSources(text) == {text[j + 1] : j \in {i \in 1..(Len(text) - 1) : text[i] = "**"}}

\* C16: every compiled sub-evaluator is called with the parameter map first
\* and the energy grid second, so the function of every leaf takes its
\* keywords from the parameter map; and norm-convolution * multiplicative,
\* called as evaluate(p, e, f, ff), returns lh(p, e, rh(p, e) * f, g), with
\* g(p', e') = rh(p', e') * ff(p', e').
Claim_C16 ==
    (Evaluated(<<P, E, F, FF>>) /\ result.status = "ok")
        => LET n == result.node
               mapping == GetSuffixMapping(nodes, n, "name")
           IN  /\ KeywordSources(result.value) \subseteq {"p", "x1"}
               /\ ShapeOf(nodes, n) = "wrapper_ncon_mul"
                     => LET lh == nodes[n].predecessor[1]
                            rh == nodes[n].predecessor[2]
                            g == LambdaText(
                                    BinText("*", Apply(nodes, mapping, rh, <<X1, X2>>),
                                                 ValueCallText(FF, <<X1, X2>>)))
                        IN  result.value =
                               Apply(nodes, mapping, lh,
                                     <<P, E, BinText("*", Apply(nodes, mapping, rh, <<P, E>>), F),
                                       g>>)

(***************************************************************************)
(* Properties of the mapping                                               *)
(***************************************************************************)
\* C17: a read of mapping returns the suffix maps of the name and of the fmt
\* that a LabelSpace constructed at that moment holds, whatever label of a
\* leaf has changed since the snapshot was taken.
Claim_C17 ==
    result.call = "LabelSpace.mapping"
        => result.value = <<GetSuffixMapping(nodes, space.node, "name"),
                            GetSuffixMapping(nodes, space.node, "fmt")>>

(***************************************************************************)
(* Properties of the sites of models                                       *)
(***************************************************************************)
\* C20: the read of the site map of a model tree returns a map, with sample
\* and deterministic maps that may be empty, for every tree that construction
\* accepts, a leaf without parameters and a composite holding one included.
Claim_C20 ==
    (result.call = "site" /\ nodes[result.node].type = "model")
        => result.status = "ok"

(***************************************************************************)
(* Properties of the label rendering of shared leaves                      *)
(***************************************************************************)
\* a leaf is met more than once below root
HasSharedLeaf(root) == Len(LeafSeq(root)) > Cardinality(Leaves(root))

\* the label of the tree below n with every occurrence of a leaf replaced by
\* the one text the suffix mapping of the LabelSpace holds for that leaf
RECURSIVE RenderWith(_, _)
RenderWith(n, label_type) ==
    IF ~nodes[n].is_operation THEN Disambiguation(n, label_type)
    ELSE LET lh == nodes[n].predecessor[1]
             rh == nodes[n].predecessor[2]
             wrap(m) == IF nodes[n].name = <<"*">> /\ nodes[m].name = <<"+">>
                        THEN <<"(">> \o RenderWith(m, label_type) \o <<")">>
                        ELSE RenderWith(m, label_type)
         IN  wrap(lh) \o <<" ">> \o Attr(nodes, n, label_type) \o <<" ">> \o wrap(rh)

\* C21: a leaf met more than once in the tree takes one position in the suffix
\* numbering and renders with one label at every occurrence: the suffix
\* mapping has one entry per distinct leaf, the entry of a leaf is its raw
\* label numbered by its rank among the distinct leaves of that raw label in
\* order of first occurrence, and a render puts that entry at each occurrence.
Thm_C21 ==
    space.made
        => \A t \in {"name", "fmt"} :
              /\ Len(space.label_map[t]) = Cardinality(Leaves(space.node))
              /\ \A l \in Leaves(space.node) :
                    Disambiguation(l, t) = Disambiguated(space.node, l, t)
              /\ Rendered(t) => result.value = RenderWith(space.node, t)

\* the name of (a + a) + b was rendered, a and b being two distinct PowerLaw
\* leaves: the second occurrence of a leaves the number 2 to b
Wit_C21 ==
    /\ Rendered("name")
    /\ HasSharedLeaf(space.node)
    /\ Cardinality(Leaves(space.node)) = 2
    /\ LeafSeq(space.node)[1] = LeafSeq(space.node)[2]
    /\ result.value = <<"PowerLaw", " ", "+", " ", "PowerLaw", " ", "+", " ",
                        "PowerLaw", "2">>

====
